---------------------------- MODULE Spec2Model ----------------------------
(***************************************************************************)
(* Model of the stream testbench (src/src/testbench/testbench.py): the     *)
(* StreamInitiator / StreamResponder drivers, the StreamMonitor, the       *)
(* stream_traffic_seq / stream_backpressure_seq sequences with their       *)
(* driver locks, the Testbench model callback, the scoreboard channel of   *)
(* x_mon and the `random` testcase.                                        *)
(*                                                                         *)
(* Time is the simulated clock.  An Edge action is one rising edge: the    *)
(* values written since the previous edge settle into `sig` (what io.get   *)
(* returns during this time step), and every task suspended on the clock   *)
(* is put in `woken`.  The woken tasks then run one at a time, in any      *)
(* order; what they write with io.set goes to `nxt` and becomes visible at *)
(* the next edge.                                                          *)
(***************************************************************************)
EXTENDS Integers, Sequences, FiniteSets, TLC

\* ------------------------------------------------------------------ bounds
MaxData == 1
MaxEnq == 3
MaxEdges == 4
MaxCycles == 2
MaxLen == 2
MaxWindow == 3
MaxRefs == 4
MaxPackets == 3
HoldCap == 2
MaxCancel == 2
MaxWait == 1
BenchPackets == 6

Data == 0..MaxData
Bit == {0, 1}

\* ------------------------------------------------------- testbench topology
Initiators == {"a_init", "b_init"}
Responders == {"x_resp"}
Drivers == Initiators \cup Responders
Ports == {"a", "b", "x"}
Mon == "x_mon"

PortOf(d) == CASE d = "a_init" -> "a" [] d = "b_init" -> "b" [] OTHER -> "x"

\* ------------------------------------------------------------ transactions
NoTxn == [kind |-> "none"]
StreamTransaction(d) == [kind |-> "stream", data |-> d]
StreamBackpressure(r, c, who) == [kind |-> "bp", ready |-> r, cycles |-> c, by |-> who]

StreamIO == [data |-> 0, valid |-> 0, ready |-> 0]

\* ---------------------------------------------------------------- sequences
TrafficSeqs == {"t1", "t2"}
BpSeqs == {"bp1", "bp2"}
Seqs == TrafficSeqs \cup BpSeqs
NoSeq == "none"
Test == "test"

SeqDriver(s) == IF s \in TrafficSeqs THEN "a_init" ELSE "x_resp"

Min(a, b) == IF a < b THEN a ELSE b
Remove(q, k) == SubSeq(q, 1, k - 1) \o SubSeq(q, k + 1, Len(q))
IsPrefix(p, q) == Len(p) <= Len(q) /\ p = SubSeq(q, 1, Len(p))


VARIABLES
    queue,            \* driver -> pending transactions, head first
    drvPc,            \* driver -> "idle" | "edge" | "cycles"
    cur,              \* driver -> the transaction in flight, or NoTxn
    cyc,              \* driver -> rising edges left of ClockCycles
    waited,           \* driver -> edges the current drive() saw and went on waiting (an initiator's up to MaxWait)
    inflight,         \* driver -> drive() calls started and not yet returned
    sig,              \* port -> signal values as read during this time step
    nxt,              \* port -> signal values as written, settled at the next edge
    rst,              \* the reset signal as read during this time step
    rst_active_value, \* the testbench's active reset value
    monPort,          \* the port the StreamMonitor is attached to
    woken,            \* tasks resumed by the current edge that have not run yet
    edges,            \* rising edges so far
    edgeCaps,         \* captures invoked by the monitor on the current edge
    prevRst,          \* reset as read on the previous edge
    enqLog,           \* initiator -> every transaction enqueued, in call order
    enqCnt,           \* driver -> enqueue calls so far, counted up to MaxEnq
    drvLog,           \* initiator -> data that drive() put on the port, in order
    doneCnt,          \* driver -> drive() calls that returned (a responder's up to MaxEnq)
    capLog,           \* data of the transactions the monitor captured, in order
    seqPc,            \* sequence -> its position
    seqLeft,          \* traffic sequence -> iterations left of its for loop
    lockHolder,       \* driver -> the sequence its lock records as holder, or NoSeq
    lockWait,         \* driver -> sequences blocked in acquire, first first
    holdEnq,          \* sequence -> enqueues made since it last entered its lock scope
    bareEnq,          \* an enqueue was made by a caller not holding the driver's lock
    cancelHeld,       \* sequences canceled while inside their lock scope
    sb,               \* the x_mon scoreboard channel
    sbWindow,         \* its match window
    refSrc,           \* scoreboard stimulus: references still to push
    actSrc,           \* scoreboard stimulus: actuals still to arrive
    actOrder,         \* scoreboard stimulus: the whole actual stream
    final,            \* the end-of-run report, once the run is finalized
    tcPc,             \* the random testcase's position
    packets,          \* its packets parameter
    iter,             \* iterations done of its enqueue loop
    num_a,            \* its num_a
    num_b,            \* its num_b
    subscribed        \* _rand_bp is subscribed to x_resp's POST_DRIVE

drvVars == <<queue, drvPc, cur, cyc, waited, inflight>>
portVars == <<sig, nxt, rst, rst_active_value, monPort, woken, edges, edgeCaps, prevRst>>
logVars == <<enqLog, enqCnt, drvLog, doneCnt, capLog>>
seqVars == <<seqPc, seqLeft, lockHolder, lockWait, holdEnq, cancelHeld>>
sbVars == <<sb, sbWindow, refSrc, actSrc, actOrder, final>>
tcVars == <<tcPc, packets, iter, num_a, num_b, subscribed>>
vars == <<drvVars, portVars, logVars, seqVars, bareEnq, sbVars, tcVars>>

\* --------------------------------------------------------------- scoreboard
\* The channel: reference and actual queues, the fatal mismatches reported, and
\* the counts the end-of-run report is made of.
EmptyChannel == [ref |-> <<>>, act |-> <<>>, mism |-> 0,
                 refPushed |-> 0, actPushed |-> 0, matched |-> 0]

\* Mutant: only the head of the reference queue is compared.
MatchIdx_head_only(ref, a, w) == IF ref # <<>> /\ ref[1] = a THEN 1 ELSE 0

\* The offset (from 1) of the first of the first min(w, Len(ref)) reference
\* entries equal to a, or 0.
MatchIdx(ref, a, w) ==
    LET c == {k \in 1..Min(w, Len(ref)) : ref[k] = a}
    IN IF c = {} THEN 0 ELSE CHOOSE k \in c : \A j \in c : k <= j

\* Mutant: on a mismatch the reference head is dropped with the actual head.
MatchStep_guess(ch, w) ==
    IF ch.ref = <<>> \/ ch.act = <<>> THEN ch
    ELSE LET k == MatchIdx(ch.ref, Head(ch.act), w)
         IN IF k = 0
            THEN [ch EXCEPT !.mism = @ + 1, !.ref = Tail(@), !.act = Tail(@)]
            ELSE [ch EXCEPT !.ref = Remove(@, k), !.act = Tail(@), !.matched = @ + 1]

MatchStep(ch, w) ==
    IF ch.ref = <<>> \/ ch.act = <<>> THEN ch
    ELSE LET k == MatchIdx(ch.ref, Head(ch.act), w)
         IN IF k = 0
            THEN [ch EXCEPT !.mism = @ + 1]
            ELSE [ch EXCEPT !.ref = Remove(@, k), !.act = Tail(@), !.matched = @ + 1]

push_reference(ch, obj, w) ==
    MatchStep([ch EXCEPT !.ref = Append(@, obj), !.refPushed = @ + 1], w)

push_actual(ch, obj, w) ==
    MatchStep([ch EXCEPT !.act = Append(@, obj), !.actPushed = @ + 1], w)

\* The end-of-run report of the channel: the counts of matched and unmatched
\* entries, and the run status (non-zero is a failure).
NotFinal == [done |-> FALSE, status |-> 0, matched |-> 0,
             unmatched_ref |-> 0, unmatched_act |-> 0]

\* Mutant: only a fatal mismatch fails the run, leftover entries do not.
Report_mismatch_only(ch) ==
    [done |-> TRUE,
     status |-> IF ch.mism > 0 THEN 1 ELSE 0,
     matched |-> ch.matched,
     unmatched_ref |-> Len(ch.ref),
     unmatched_act |-> Len(ch.act)]

Report(ch) ==
    [done |-> TRUE,
     status |-> IF ch.ref # <<>> \/ ch.act # <<>> \/ ch.mism > 0 THEN 1 ELSE 0,
     matched |-> ch.matched,
     unmatched_ref |-> Len(ch.ref),
     unmatched_act |-> Len(ch.act)]

\* A fatal mismatch aborts the run; a finalized run is over.
Running == sb.mism = 0 /\ ~final.done

\* ------------------------------------------------------------- initial state
InitDrivers ==
    /\ queue = [d \in Drivers |-> <<>>]
    /\ drvPc = [d \in Drivers |-> "idle"]
    /\ cur = [d \in Drivers |-> NoTxn]
    /\ cyc = [d \in Drivers |-> 0]
    /\ waited = [d \in Drivers |-> 0]
    /\ inflight = [d \in Drivers |-> 0]

InitPorts(mp, rsts, actives) ==
    /\ sig = [p \in Ports |-> StreamIO]
    /\ nxt = [p \in Ports |-> StreamIO]
    /\ rst_active_value \in actives
    /\ rst \in rsts
    /\ prevRst = rst
    /\ monPort = mp
    /\ woken = {}
    /\ edges = 0
    /\ edgeCaps = 0

InitLogs ==
    /\ enqLog = [d \in Drivers |-> <<>>]
    /\ enqCnt = [d \in Drivers |-> 0]
    /\ drvLog = [d \in Drivers |-> <<>>]
    /\ doneCnt = [d \in Drivers |-> 0]
    /\ capLog = <<>>
    /\ bareEnq = FALSE

InitNoSeqs ==
    /\ seqPc = [s \in Seqs |-> "off"]
    /\ seqLeft = [s \in TrafficSeqs |-> 0]
    /\ lockHolder = [d \in Drivers |-> NoSeq]
    /\ lockWait = [d \in Drivers |-> <<>>]
    /\ holdEnq = [s \in Seqs |-> 0]
    /\ cancelHeld = {}

\* Testbench.__init__ registers x_mon with scoreboard_match_window=4.
scoreboard_match_window == 4

InitBenchScoreboard ==
    /\ sb = EmptyChannel
    /\ sbWindow = scoreboard_match_window
    /\ refSrc = <<>>
    /\ actSrc = <<>>
    /\ actOrder = <<>>
    /\ final = NotFinal

InitNoTestcase ==
    /\ tcPc = "off"
    /\ packets = 0
    /\ iter = 0
    /\ num_a = 0
    /\ num_b = 0
    /\ subscribed = FALSE

\* ------------------------------------------------------------------ drivers
\* Mutant: only a_init's ENQUEUE is subscribed to.
ModelSubscribed_a_only(d) == d = "a_init"

\* Testbench.__init__ subscribes Testbench.model to ENQUEUE of a_init and b_init.
ModelSubscribed(d) == d \in {"a_init", "b_init"}

\* Mutant: the callback returns without pushing.
model_lost(ch, obj, w) == ch

\* Testbench.model: push the enqueued transaction as a reference on x_mon.
model(ch, obj, w) == push_reference(ch, obj, w)

\* enqueue(obj) by `caller`: append to the driver's queue and publish ENQUEUE
\* to the subscribers before returning.
Enqueue(d, obj, caller) ==
    /\ queue' = [queue EXCEPT ![d] = Append(@, obj)]
    /\ enqLog' = IF d \in Initiators THEN [enqLog EXCEPT ![d] = Append(@, obj)] ELSE enqLog
    /\ enqCnt' = [enqCnt EXCEPT ![d] = Min(@ + 1, MaxEnq)]
    /\ bareEnq' = (bareEnq \/ lockHolder[d] # caller)
    /\ sb' = IF ModelSubscribed(d) THEN model(sb, obj, sbWindow) ELSE sb

BoolToBit(b) == IF b THEN 1 ELSE 0

\* Mutant: drive() asserts valid without setting data.
StreamInitiator_drive_set_stale(io, obj) == [io EXCEPT !.valid = 1]

\* StreamInitiator.drive up to its first await: data and valid are set.
StreamInitiator_drive_set(io, obj) == [io EXCEPT !.data = obj.data, !.valid = 1]

\* Mutant: drive() leaves its loop at the first rising edge.
StreamInitiator_drive_accepted_always(io) == TRUE

\* StreamInitiator.drive after a rising edge: the loop ends when ready reads true.
StreamInitiator_drive_accepted(io) == io.ready # 0

\* Mutant: drive() returns leaving valid asserted.
StreamInitiator_drive_clear_forgot(io) == io

\* StreamInitiator.drive after its loop: valid is cleared.
StreamInitiator_drive_clear(io) == [io EXCEPT !.valid = 0]

\* StreamResponder.drive up to its await: ready is set.
StreamResponder_drive_set(io, obj) == [io EXCEPT !.ready = BoolToBit(obj.ready)]

\* Mutant: drive() holds ready for one rising edge whatever cycles says.
StreamResponder_drive_cycles_one(obj) == 1

\* StreamResponder.drive: the rising edges of its ClockCycles.
StreamResponder_drive_cycles(obj) == obj.cycles

\* PRE_DRIVE of obj resumes the sequence waiting on that transaction's event.
PublishPreDrive(obj) ==
    [s \in Seqs |->
        IF obj.kind = "bp" /\ obj.by = s /\ seqPc[s] = "await_pre"
        THEN "held" ELSE seqPc[s]]

\* Mutant: the driver loop takes the next transaction while one is in flight.
DriverRunnable_overlap(d) == queue[d] # <<>>

\* The driver loop can take a transaction: none is in flight and the queue is
\* not empty.
DriverRunnable(d) == drvPc[d] = "idle" /\ queue[d] # <<>>

\* The driver loop takes the head of the queue, publishes PRE_DRIVE and starts
\* drive(), which runs to its first await.
DriverStart(d) ==
    /\ Running
    /\ tcPc \in {"off", "done"}
    /\ DriverRunnable(d)
    /\ LET obj == Head(queue[d])
           p == PortOf(d)
       IN /\ queue' = [queue EXCEPT ![d] = Tail(@)]
          /\ cur' = [cur EXCEPT ![d] = obj]
          /\ seqPc' = PublishPreDrive(obj)
          /\ waited' = [waited EXCEPT ![d] = 0]
          /\ inflight' = [inflight EXCEPT ![d] = @ + 1]
          /\ IF d \in Initiators
             THEN /\ nxt' = [nxt EXCEPT ![p] = StreamInitiator_drive_set(@, obj)]
                  /\ drvPc' = [drvPc EXCEPT ![d] = "edge"]
                  /\ cyc' = cyc
                  /\ drvLog' = [drvLog EXCEPT ![d] = Append(@, nxt'[p].data)]
             ELSE /\ nxt' = [nxt EXCEPT ![p] = StreamResponder_drive_set(@, obj)]
                  /\ drvPc' = [drvPc EXCEPT ![d] = "cycles"]
                  /\ cyc' = [cyc EXCEPT ![d] = StreamResponder_drive_cycles(obj)]
                  /\ drvLog' = drvLog
    /\ UNCHANGED <<sig, rst, rst_active_value, monPort, woken, edges, edgeCaps, prevRst>>
    /\ UNCHANGED <<enqLog, enqCnt, doneCnt, capLog, bareEnq, sbVars, tcVars>>
    /\ UNCHANGED <<seqLeft, lockHolder, lockWait, holdEnq, cancelHeld>>

\* StreamInitiator.drive resumed by a rising edge.
InitiatorEdge(d) ==
    /\ d \in Initiators
    /\ d \in woken
    /\ drvPc[d] = "edge"
    /\ woken' = woken \ {d}
    /\ IF StreamInitiator_drive_accepted(sig[PortOf(d)])
       THEN /\ nxt' = [nxt EXCEPT ![PortOf(d)] = StreamInitiator_drive_clear(@)]
            /\ drvPc' = [drvPc EXCEPT ![d] = "idle"]
            /\ cur' = [cur EXCEPT ![d] = NoTxn]
            /\ doneCnt' = [doneCnt EXCEPT ![d] = @ + 1]
            /\ inflight' = [inflight EXCEPT ![d] = @ - 1]
            /\ waited' = waited
       ELSE /\ waited' = [waited EXCEPT ![d] = Min(@ + 1, MaxWait)]
            /\ UNCHANGED <<nxt, drvPc, cur, doneCnt, inflight>>
    /\ UNCHANGED <<queue, cyc, sig, rst, rst_active_value, monPort, edges, edgeCaps, prevRst>>
    /\ UNCHANGED <<enqLog, enqCnt, drvLog, capLog, bareEnq, seqVars, sbVars, tcVars>>

\* Mutant: _rand_bp enqueues nothing.
rand_bp_none(r, c) == UNCHANGED <<queue, enqLog, enqCnt, bareEnq, sb>>

\* random._rand_bp: enqueue one StreamBackpressure on x_resp.
rand_bp(r, c) == Enqueue("x_resp", StreamBackpressure(r, c, Test), Test)

\* StreamResponder.drive resumed by a rising edge of its ClockCycles; when the
\* last one has passed drive() returns and POST_DRIVE is published.
ResponderEdge(d) ==
    /\ d \in Responders
    /\ d \in woken
    /\ drvPc[d] = "cycles"
    /\ woken' = woken \ {d}
    /\ IF cyc[d] <= 1
       THEN /\ cyc' = [cyc EXCEPT ![d] = 0]
            /\ drvPc' = [drvPc EXCEPT ![d] = "idle"]
            /\ cur' = [cur EXCEPT ![d] = NoTxn]
            /\ doneCnt' = [doneCnt EXCEPT ![d] = Min(@ + 1, MaxEnq)]
            /\ inflight' = [inflight EXCEPT ![d] = @ - 1]
            /\ waited' = waited
            /\ IF subscribed
               THEN \E r \in BOOLEAN, c \in 1..MaxCycles : rand_bp(r, c)
               ELSE UNCHANGED <<queue, enqLog, enqCnt, bareEnq, sb>>
       ELSE /\ cyc' = [cyc EXCEPT ![d] = @ - 1]
            /\ waited' = [waited EXCEPT ![d] = @ + 1]
            /\ UNCHANGED <<drvPc, cur, doneCnt, inflight, queue, enqLog, enqCnt, bareEnq, sb>>
    /\ UNCHANGED <<sig, nxt, rst, rst_active_value, monPort, edges, edgeCaps, prevRst>>
    /\ UNCHANGED <<drvLog, capLog, seqVars, tcVars>>
    /\ UNCHANGED <<sbWindow, refSrc, actSrc, actOrder, final>>

\* ------------------------------------------------------------------ monitor
\* Mutant: the monitor ignores reset.
MonitorInReset_never(rstv, active) == FALSE

\* StreamMonitor.monitor: the reset test.
MonitorInReset(rstv, active) == rstv = active

\* Mutant: the monitor samples on valid alone.
MonitorHandshake_valid_only(io) == io.valid # 0

\* StreamMonitor.monitor: the handshake test.
MonitorHandshake(io) == io.valid # 0 /\ io.ready # 0

\* StreamMonitor.monitor: the transaction handed to capture.
MonitorCapture(io) == StreamTransaction(io.data)

\* StreamMonitor.monitor resumed by a rising edge; capture feeds the scoreboard
\* channel's actual queue.
Monitor ==
    /\ Mon \in woken
    /\ woken' = woken \ {Mon}
    /\ IF ~MonitorInReset(rst, rst_active_value) /\ MonitorHandshake(sig[monPort])
       THEN /\ capLog' = Append(capLog, MonitorCapture(sig[monPort]).data)
            /\ edgeCaps' = edgeCaps + 1
            /\ sb' = push_actual(sb, MonitorCapture(sig[monPort]), sbWindow)
       ELSE UNCHANGED <<capLog, edgeCaps, sb>>
    /\ UNCHANGED <<drvVars, sig, nxt, rst, rst_active_value, monPort, edges, prevRst>>
    /\ UNCHANGED <<enqLog, enqCnt, drvLog, doneCnt, bareEnq, seqVars, tcVars>>
    /\ UNCHANGED <<sbWindow, refSrc, actSrc, actOrder, final>>

\* -------------------------------------------------------------------- clock
\* Simulated time advances only when every task is suspended: no driver loop
\* can take a transaction, no sequence and no testcase is ready to run.
SeqRunnable(s) ==
    \/ seqPc[s] = "start"
    \/ seqPc[s] = "held"

Quiescent ==
    /\ \A d \in Drivers : ~DriverRunnable(d)
    /\ \A s \in Seqs : ~SeqRunnable(s)
    /\ tcPc \in {"off", "done"}

\* One rising edge: the new signal values are readable, the design's registers
\* take their new values (newNxt), the tasks waiting on the clock are resumed.
ClockTick(newSig, newNxt, newRst, count, tasks) ==
    /\ Running
    /\ woken = {}
    /\ Quiescent
    /\ count => edges < MaxEdges
    /\ edges' = IF count THEN edges + 1 ELSE edges
    /\ sig' = newSig
    /\ nxt' = newNxt
    /\ rst' = newRst
    /\ prevRst' = rst
    /\ edgeCaps' = 0
    /\ woken' = tasks \cap ({Mon} \cup {d \in Drivers : drvPc[d] # "idle"})
    /\ UNCHANGED <<rst_active_value, monPort>>
    /\ UNCHANGED <<drvVars, logVars, bareEnq, seqVars, sbVars, tcVars>>

\* One rising edge with no register of the design modelled.
ClockEdge(newSig, newRst, count, tasks) == ClockTick(newSig, nxt, newRst, count, tasks)

\* ---------------------------------------------- the monitor on any signals
\* The environment drives data, valid, ready and reset of the x port freely.
EdgeMon ==
    \E d \in Data, v \in Bit, r \in Bit, rs \in Bit :
        ClockEdge([sig EXCEPT !["x"] = [data |-> d, valid |-> v, ready |-> r]], rs, TRUE, {Mon})

InitMon ==
    /\ InitDrivers /\ InitPorts("x", Bit, Bit) /\ InitLogs /\ InitNoSeqs
    /\ InitBenchScoreboard /\ InitNoTestcase

NextMon == EdgeMon \/ Monitor

SpecMon == InitMon /\ [][NextMon]_vars

\* C6: once reset is released, on every rising edge where valid and ready both
\* read true on the monitor's port the capture callback is invoked exactly once,
\* with the data visible on that edge; on an edge where valid or ready reads
\* false it is not invoked.
MonitorRan == edges > 0 /\ Mon \notin woken

C6_ExactlyOnceCapture ==
    /\ Mon \in woken => edgeCaps = 0
    /\ (MonitorRan /\ rst # rst_active_value) =>
          IF sig[monPort].valid = 1 /\ sig[monPort].ready = 1
          THEN /\ edgeCaps = 1
               /\ capLog # <<>>
               /\ capLog[Len(capLog)] = sig[monPort].data
          ELSE edgeCaps = 0

C6_Witness ==
    /\ MonitorRan /\ rst # rst_active_value
    /\ sig[monPort].valid = 1 /\ sig[monPort].ready = 1
    /\ edgeCaps = 1 /\ Len(capLog) >= 2
    /\ capLog[Len(capLog)] = 1 /\ capLog[Len(capLog) - 1] = 0

\* C8: on every rising edge where reset equals the active value the monitor
\* captures nothing, whatever valid, ready and data are; it samples again on the
\* first edge after reset is released.
C8_ResetGating ==
    /\ (MonitorRan /\ rst = rst_active_value) => edgeCaps = 0
    /\ (MonitorRan /\ prevRst = rst_active_value /\ rst # rst_active_value
          /\ sig[monPort].valid = 1 /\ sig[monPort].ready = 1) => edgeCaps = 1

C8_Witness ==
    /\ MonitorRan /\ rst = rst_active_value
    /\ sig[monPort].valid = 1 /\ sig[monPort].ready = 1
    /\ edgeCaps = 0 /\ edges >= 2 /\ capLog = <<>>

\* ------------------------------------- an initiator and the monitor, one port
\* A testcase enqueues a StreamTransaction on an initiator directly.
DirectEnqueue(d) ==
    /\ Running
    /\ Len(enqLog[d]) < MaxEnq
    /\ \E v \in Data : Enqueue(d, StreamTransaction(v), Test)
    /\ UNCHANGED <<drvPc, cur, cyc, waited, inflight, portVars, drvLog, doneCnt, capLog>>
    /\ UNCHANGED <<seqVars, tcVars, sbWindow, refSrc, actSrc, actOrder, final>>

\* The design drives ready of the a port freely; reset stays released.
EdgeStream ==
    \E r \in Bit :
        ClockEdge([p \in Ports |-> IF p = "a" THEN [nxt[p] EXCEPT !.ready = r] ELSE nxt[p]],
                  rst, TRUE, {Mon, "a_init"})

InitStream ==
    /\ InitDrivers /\ InitPorts("a", Bit, Bit) /\ rst # rst_active_value /\ InitLogs
    /\ InitNoSeqs /\ InitBenchScoreboard /\ InitNoTestcase

NextStream ==
    \/ DirectEnqueue("a_init")
    \/ DriverStart("a_init")
    \/ InitiatorEdge("a_init")
    \/ Monitor
    \/ EdgeStream

SpecStream == InitStream /\ [][NextStream]_vars

DataOf(q) == [i \in 1..Len(q) |-> q[i].data]

\* C5: an initiator puts the transactions on its port in exactly the order they
\* were enqueued, none skipped or repeated.
C5_FifoDriveOrder ==
    \A d \in Initiators :
        /\ IsPrefix(drvLog[d], DataOf(enqLog[d]))
        /\ queue[d] = SubSeq(enqLog[d], Len(drvLog[d]) + 1, Len(enqLog[d]))
        /\ drvPc[d] = "edge" =>
              /\ nxt[PortOf(d)].valid = 1
              /\ nxt[PortOf(d)].data = cur[d].data
              /\ cur[d] = enqLog[d][Len(drvLog[d])]

C5_Witness ==
    /\ Len(drvLog["a_init"]) = 3
    /\ drvLog["a_init"] = <<1, 0, 1>>
    /\ doneCnt["a_init"] = 3

\* C7: with the initiator and the monitor on one port, each transaction the
\* initiator drives is captured exactly once, with its own data, however many
\* edges ready stays low and also when the next transaction is driven right
\* after acceptance.
C7_ExactlyOncePerTransfer ==
    (woken \cap {"a_init", Mon} = {}) =>
        capLog = SubSeq(DataOf(enqLog["a_init"]), 1, doneCnt["a_init"])

C7_Witness ==
    /\ woken = {}
    /\ doneCnt["a_init"] = 2
    /\ waited["a_init"] >= 1
    /\ capLog = <<0, 1>>
    /\ drvPc["a_init"] = "idle"

\* drive() of a_init is resumed by a rising edge in this step.
DriveResumed == "a_init" \in woken /\ "a_init" \notin woken' /\ drvPc["a_init"] = "edge"

\* One step of the a port seen from a_init's drive(): the drive that continues
\* keeps valid and data, valid falls and drive() returns only when resumed by an
\* edge on which ready reads true, and it does return then.
HandshakeStep ==
    /\ (drvPc["a_init"] = "edge" /\ drvPc'["a_init"] = "edge") =>
          /\ cur'["a_init"] = cur["a_init"]
          /\ nxt'["a"].valid = 1
          /\ nxt'["a"].data = cur["a_init"].data
    /\ (nxt["a"].valid = 1 /\ nxt'["a"].valid = 0) =>
          /\ DriveResumed
          /\ sig["a"].ready # 0
          /\ doneCnt'["a_init"] = doneCnt["a_init"] + 1
    /\ (doneCnt'["a_init"] # doneCnt["a_init"]) <=> (DriveResumed /\ sig["a"].ready # 0)
    /\ (DriveResumed /\ sig["a"].ready = 0) => drvPc'["a_init"] = "edge"

\* C16: from the moment drive() asserts valid until the first later rising edge
\* on which ready reads true, valid stays 1 and data stays the transaction's
\* data, at every edge in between too; valid is deasserted only at such an edge,
\* and drive() returns exactly when such an edge occurs.
C16_HandshakeStability ==
    /\ []((drvPc["a_init"] = "edge" /\ "a_init" \in woken) =>
            (sig["a"].valid = 1 /\ sig["a"].data = cur["a_init"].data))
    /\ [][HandshakeStep]_vars

C16_Witness ==
    /\ drvPc["a_init"] = "edge"
    /\ "a_init" \notin woken
    /\ waited["a_init"] >= 1
    /\ sig["a"].valid = 1
    /\ sig["a"].ready = 0
    /\ sig["a"].data = cur["a_init"].data
    /\ doneCnt["a_init"] >= 1

\* ------------------------------------------------- sequences and their locks
\* The sequences scheduled in a run: the traffic sequences on a_init, or the
\* backpressure sequences on x_resp (the two drivers share no lock and no queue).
InitSeqs ==
    /\ \E run \in {TrafficSeqs, BpSeqs} :
          seqPc = [s \in Seqs |-> IF s \in run THEN "start" ELSE "off"]
    /\ seqLeft \in [TrafficSeqs -> 1..MaxLen]
    /\ lockHolder = [d \in Drivers |-> NoSeq]
    /\ lockWait = [d \in Drivers |-> <<>>]
    /\ holdEnq = [s \in Seqs |-> 0]
    /\ cancelHeld = {}

InScope(s) == seqPc[s] \in {"held", "await_pre"}

\* lock.acquire() by s: take the free lock, or join the waiters.
LockAcquire(d, s) ==
    IF lockHolder[d] = NoSeq
    THEN /\ lockHolder' = [lockHolder EXCEPT ![d] = s]
         /\ lockWait' = lockWait
         /\ seqPc' = [seqPc EXCEPT ![s] = "held"]
    ELSE /\ lockHolder' = lockHolder
         /\ lockWait' = [lockWait EXCEPT ![d] = Append(@, s)]
         /\ seqPc' = [seqPc EXCEPT ![s] = "waiting"]

\* lock.release() by s, which goes on at `after`: hand the lock to the first
\* waiter, or mark it free.
LockRelease(d, s, after) ==
    IF lockWait[d] = <<>>
    THEN /\ lockHolder' = [lockHolder EXCEPT ![d] = NoSeq]
         /\ lockWait' = lockWait
         /\ seqPc' = [seqPc EXCEPT ![s] = after]
    ELSE /\ lockHolder' = [lockHolder EXCEPT ![d] = Head(lockWait[d])]
         /\ lockWait' = [lockWait EXCEPT ![d] = Tail(@)]
         /\ seqPc' = [seqPc EXCEPT ![s] = after, ![Head(lockWait[d])] = "held"]

\* A sequence canceled while it waits for the lock leaves the waiters.
LockAbandon(d, s) ==
    /\ lockWait' = [lockWait EXCEPT ![d] = SelectSeq(@, LAMBDA t : t # s)]
    /\ lockHolder' = lockHolder
    /\ seqPc' = [seqPc EXCEPT ![s] = "canceled"]

\* Mutant: the sequence goes into its critical section without the lock.
ScopeEnter_nolock(s) ==
    /\ seqPc' = [seqPc EXCEPT ![s] = "held"]
    /\ UNCHANGED <<lockHolder, lockWait>>

\* `async with ctx.lock(stream)`: entering the scope acquires the lock.
ScopeEnter(s) == LockAcquire(SeqDriver(s), s)

\* Mutant: the lock is not released when the scope is left by cancellation.
ScopeCancel_norelease(s) ==
    /\ seqPc' = [seqPc EXCEPT ![s] = "canceled"]
    /\ UNCHANGED <<lockHolder, lockWait>>

\* `async with ctx.lock(stream)`: leaving the scope by cancellation or an error
\* releases the lock.
ScopeCancel(s) == LockRelease(SeqDriver(s), s, "canceled")

\* stream_traffic_seq: the next iteration of the for loop enters the lock scope.
TrafficEnter(s) ==
    /\ Running
    /\ s \in TrafficSeqs
    /\ seqPc[s] = "start"
    /\ seqLeft[s] > 0
    /\ ScopeEnter(s)
    /\ holdEnq' = [holdEnq EXCEPT ![s] = 0]
    /\ UNCHANGED <<drvVars, portVars, logVars, bareEnq, seqLeft, cancelHeld, sbVars, tcVars>>

\* stream_traffic_seq inside the scope: one enqueue, then the scope ends and the
\* lock is released.
TrafficEnqueue(s) ==
    /\ Running
    /\ s \in TrafficSeqs
    /\ seqPc[s] = "held"
    /\ \E v \in Data : Enqueue(SeqDriver(s), StreamTransaction(v), s)
    /\ holdEnq' = [holdEnq EXCEPT ![s] = Min(@ + 1, HoldCap)]
    /\ LockRelease(SeqDriver(s), s, "start")
    /\ seqLeft' = [seqLeft EXCEPT ![s] = @ - 1]
    /\ UNCHANGED <<drvPc, cur, cyc, waited, inflight, portVars, drvLog, doneCnt, capLog>>
    /\ UNCHANGED <<cancelHeld, tcVars, sbWindow, refSrc, actSrc, actOrder, final>>

\* stream_traffic_seq: the for loop is over.
TrafficDone(s) ==
    /\ s \in TrafficSeqs
    /\ seqPc[s] = "start"
    /\ seqLeft[s] = 0
    /\ seqPc' = [seqPc EXCEPT ![s] = "done"]
    /\ UNCHANGED <<drvVars, portVars, logVars, bareEnq, sbVars, tcVars>>
    /\ UNCHANGED <<seqLeft, lockHolder, lockWait, holdEnq, cancelHeld>>

\* stream_backpressure_seq: the lock scope is entered once, around the loop.
BackpressureEnter(s) ==
    /\ Running
    /\ s \in BpSeqs
    /\ seqPc[s] = "start"
    /\ ScopeEnter(s)
    /\ holdEnq' = [holdEnq EXCEPT ![s] = 0]
    /\ UNCHANGED <<drvVars, portVars, logVars, bareEnq, seqLeft, cancelHeld, sbVars, tcVars>>

\* Mutant: the sequence does not wait for the event of its transaction.
EventWait_skip(s) == seqPc

\* `await stream.enqueue(obj, DriverEvent.PRE_DRIVE).wait()`: the sequence is
\* suspended until PRE_DRIVE of the transaction it enqueued.
EventWait(s) == [seqPc EXCEPT ![s] = "await_pre"]

\* stream_backpressure_seq: one iteration of `while True`, up to the wait for
\* the PRE_DRIVE event of the transaction it enqueued.
BackpressureEnqueue(s) ==
    /\ Running
    /\ s \in BpSeqs
    /\ seqPc[s] = "held"
    /\ \E r \in BOOLEAN, c \in 1..MaxCycles :
          Enqueue(SeqDriver(s), StreamBackpressure(r, c, s), s)
    /\ holdEnq' = [holdEnq EXCEPT ![s] = Min(@ + 1, HoldCap)]
    /\ seqPc' = EventWait(s)
    /\ UNCHANGED <<drvPc, cur, cyc, waited, inflight, portVars, drvLog, doneCnt, capLog>>
    /\ UNCHANGED <<seqLeft, lockHolder, lockWait, cancelHeld>>
    /\ UNCHANGED <<tcVars, sbWindow, refSrc, actSrc, actOrder, final>>

\* A sequence is canceled (the run ends) or fails at one of its suspension
\* points.
Cancel(s) ==
    /\ seqPc[s] \in {"start", "waiting", "held", "await_pre"}
    /\ Cardinality({t \in Seqs : seqPc[t] = "canceled"}) < MaxCancel
    /\ IF InScope(s)
       THEN /\ ScopeCancel(s)
            /\ cancelHeld' = cancelHeld \cup {s}
       ELSE /\ cancelHeld' = cancelHeld
            /\ IF seqPc[s] = "waiting"
               THEN LockAbandon(SeqDriver(s), s)
               ELSE /\ seqPc' = [seqPc EXCEPT ![s] = "canceled"]
                    /\ UNCHANGED <<lockHolder, lockWait>>
    /\ UNCHANGED <<drvVars, portVars, logVars, bareEnq, seqLeft, holdEnq, sbVars, tcVars>>

\* The design drives ready of the a port freely; reset stays released.
EdgeSeq ==
    \E r \in Bit :
        ClockEdge([p \in Ports |-> IF p = "a" THEN [nxt[p] EXCEPT !.ready = r] ELSE nxt[p]],
                  rst, FALSE, Drivers)

InitSeq ==
    /\ InitDrivers /\ InitPorts("x", {0}, {1}) /\ InitLogs
    /\ InitSeqs /\ InitBenchScoreboard /\ InitNoTestcase

NextSeq ==
    \/ \E s \in TrafficSeqs : TrafficEnter(s) \/ TrafficEnqueue(s) \/ TrafficDone(s)
    \/ \E s \in BpSeqs : BackpressureEnter(s) \/ BackpressureEnqueue(s)
    \/ \E s \in Seqs : Cancel(s)
    \/ DriverStart("a_init")
    \/ DriverStart("x_resp")
    \/ InitiatorEdge("a_init")
    \/ ResponderEdge("x_resp")
    \/ EdgeSeq

SpecSeq == InitSeq /\ [][NextSeq]_vars

\* C1: at most one sequence is inside the lock scope of a driver, and it is the
\* one the lock records as its holder.
C1_LockMutualExclusion ==
    \A d \in Drivers :
        /\ Cardinality({s \in Seqs : SeqDriver(s) = d /\ InScope(s)}) <= 1
        /\ \A s \in Seqs : (SeqDriver(s) = d /\ InScope(s)) => lockHolder[d] = s

C1_Witness ==
    /\ seqPc["bp2"] = "await_pre" /\ seqPc["bp1"] = "waiting"
    /\ lockHolder["x_resp"] = "bp2" /\ lockWait["x_resp"] = <<"bp1">>
    /\ enqCnt["x_resp"] >= 2

\* C2: a sequence canceled inside its lock scope no longer holds the lock: the
\* holder of a lock is always a live sequence inside its scope, a free lock has
\* no waiter left behind, and once every sequence is over no lock is held.
C2_ReleaseOnCancel ==
    \A d \in Drivers :
        /\ lockHolder[d] # NoSeq => InScope(lockHolder[d])
        /\ lockHolder[d] = NoSeq => lockWait[d] = <<>>
        /\ \A i \in 1..Len(lockWait[d]) : seqPc[lockWait[d][i]] = "waiting"
        /\ \A s \in cancelHeld : lockHolder[d] # s
        /\ (\A s \in Seqs : seqPc[s] \in {"canceled", "done"}) => lockHolder[d] = NoSeq

C2_Witness ==
    /\ "bp1" \in cancelHeld
    /\ holdEnq["bp1"] >= 1
    /\ lockHolder["x_resp"] = "bp2"
    /\ seqPc["bp2"] = "await_pre"

\* C3: no sequence holds a driver's lock across more than one enqueue.
C3_LockScopeOneEnqueue == \A s \in Seqs : holdEnq[s] <= 1

\* One step seen from x_resp's drive(): it returns when resumed by the edge that
\* makes `cycles` edges since it set ready, and ready is written only by the
\* step that starts a drive, with the value of the transaction it starts.
HoldStep ==
    /\ (drvPc["x_resp"] = "cycles" /\ drvPc'["x_resp"] = "idle") =>
          /\ "x_resp" \in woken
          /\ waited["x_resp"] + 1 = cur["x_resp"].cycles
    /\ (nxt'["x"].ready # nxt["x"].ready) =>
          /\ drvPc["x_resp"] = "idle"
          /\ drvPc'["x_resp"] = "cycles"
          /\ nxt'["x"].ready = BoolToBit(cur'["x_resp"].ready)

\* C17: the responder sets ready to the transaction's value and holds it for
\* exactly `cycles` rising edges: drive() returns at the edge that completes the
\* count and not before, whatever valid is; ready changes only when a drive
\* starts.
C17_ResponderHoldTime ==
    /\ [](drvPc["x_resp"] = "cycles" =>
            /\ nxt["x"].ready = BoolToBit(cur["x_resp"].ready)
            /\ waited["x_resp"] < cur["x_resp"].cycles
            /\ "x_resp" \in woken => sig["x"].ready = BoolToBit(cur["x_resp"].ready))
    /\ [][HoldStep]_vars

C17_Witness ==
    /\ drvPc["x_resp"] = "cycles"
    /\ cur["x_resp"].cycles = 2
    /\ waited["x_resp"] = 1
    /\ cur["x_resp"].ready = FALSE
    /\ sig["x"].ready = 0
    /\ sig["x"].valid = 0
    /\ doneCnt["x_resp"] >= 1

\* The directives enqueued by sequence s that wait in x_resp's queue.
QueuedBy(s) == {i \in 1..Len(queue["x_resp"]) : queue["x_resp"][i].by = s}

\* C18: a backpressure sequence enqueues its next directive only after the
\* PRE_DRIVE event of its previous one: at most one directive of the sequence
\* waits in the responder's queue, and none when the sequence is about to
\* enqueue.
C18_BackpressurePacing ==
    \A s \in BpSeqs :
        /\ Cardinality(QueuedBy(s)) <= 1
        /\ seqPc[s] = "held" => QueuedBy(s) = {}
        /\ seqPc[s] = "await_pre" => Cardinality(QueuedBy(s)) = 1

C18_Witness ==
    /\ seqPc["bp1"] = "await_pre"
    /\ Cardinality(QueuedBy("bp1")) = 1
    /\ drvPc["x_resp"] = "cycles"
    /\ cur["x_resp"].by = "bp1"
    /\ doneCnt["x_resp"] >= 1

\* ------------------------------------------------- the scoreboard channel
\* The reference stream is 1..MaxRefs in order (distinct values); the actual
\* stream is any permutation of it; the window is any of 1..MaxWindow.
Perms == {p \in [1..MaxRefs -> 1..MaxRefs] : \A i, j \in 1..MaxRefs : p[i] = p[j] => i = j}

InitSb ==
    /\ InitDrivers /\ InitPorts("x", {0}, {1}) /\ InitLogs /\ InitNoSeqs /\ InitNoTestcase
    /\ sb = EmptyChannel
    /\ final = NotFinal
    /\ sbWindow \in 1..MaxWindow
    /\ refSrc = [i \in 1..MaxRefs |-> StreamTransaction(i)]
    /\ actOrder \in {[i \in 1..MaxRefs |-> StreamTransaction(p[i])] : p \in Perms}
    /\ actSrc = actOrder

\* The model pushes the next reference (at the ENQUEUE of its transaction).
SbPushReference ==
    /\ Running
    /\ refSrc # <<>>
    /\ sb' = model(sb, Head(refSrc), sbWindow)
    /\ refSrc' = Tail(refSrc)
    /\ UNCHANGED <<drvVars, portVars, logVars, bareEnq, seqVars, tcVars>>
    /\ UNCHANGED <<sbWindow, actSrc, actOrder, final>>

\* The monitor's capture pushes the next actual; a transaction is observed only
\* after it was enqueued, so its reference was pushed before.
SbPushActual ==
    /\ Running
    /\ actSrc # <<>>
    /\ \A i \in 1..Len(refSrc) : refSrc[i] # Head(actSrc)
    /\ sb' = push_actual(sb, Head(actSrc), sbWindow)
    /\ actSrc' = Tail(actSrc)
    /\ UNCHANGED <<drvVars, portVars, logVars, bareEnq, seqVars, tcVars>>
    /\ UNCHANGED <<sbWindow, refSrc, actOrder, final>>

\* The run ends (its registered coroutines are over, or it was aborted): the
\* report of the channel is made from its queues and counts.
Finalize ==
    /\ ~final.done
    /\ woken = {}
    /\ final' = Report(sb)
    /\ UNCHANGED <<drvVars, portVars, logVars, bareEnq, seqVars, tcVars>>
    /\ UNCHANGED <<sb, sbWindow, refSrc, actSrc, actOrder>>

NextSb == SbPushReference \/ SbPushActual \/ Finalize

SpecSb == InitSb /\ [][NextSb]_vars

\* Position of value v in the actual stream (the reference stream has v at v).
ActPos(v) == CHOOSE i \in 1..MaxRefs : actOrder[i].data = v

\* Reference entries ahead of v in the reference stream that arrive after v in
\* the actual stream.
Overtaken(v) == {u \in 1..MaxRefs : u < v /\ ActPos(u) > ActPos(v)}

WithinWindow == \A v \in 1..MaxRefs : Cardinality(Overtaken(v)) < sbWindow

SbOver == (refSrc = <<>> /\ actSrc = <<>>) \/ sb.mism > 0

\* C9: when every entry of the actual stream is preceded in the reference stream
\* by fewer than `window` entries that arrive after it, the channel reports no
\* mismatch, and both queues are empty at the end.
C9_WindowedMatch ==
    WithinWindow =>
        /\ sb.mism = 0
        /\ SbOver => (sb.ref = <<>> /\ sb.act = <<>> /\ sb.matched = MaxRefs)

C9_Witness ==
    /\ actOrder = [i \in 1..MaxRefs |-> StreamTransaction(<<2, 1, 3, 4>>[i])]
    /\ sbWindow = 2
    /\ SbOver
    /\ sb.ref = <<>> /\ sb.act = <<>> /\ sb.mism = 0

\* C10: when both queues are non-empty and the actual head is none of the first
\* min(window, length) reference entries, a fatal mismatch is reported and no
\* reference entry is removed; a run reports at most one, and exactly one when
\* some entry is overtaken by `window` or more (as [c,a,b,d] with window 1).
C10_FatalMismatch ==
    /\ sb.mism <= 1
    /\ (sb.ref # <<>> /\ sb.act # <<>>) =>
          /\ MatchIdx(sb.ref, Head(sb.act), sbWindow) = 0
          /\ sb.mism = 1
    /\ sb.mism = 1 => (sb.ref # <<>> /\ sb.act # <<>>)
    /\ Len(sb.ref) = sb.refPushed - sb.matched
    /\ Len(sb.act) = sb.actPushed - sb.matched
    /\ (SbOver /\ ~WithinWindow) => sb.mism = 1

C10_Witness ==
    /\ actOrder = [i \in 1..MaxRefs |-> StreamTransaction(<<3, 1, 2, 4>>[i])]
    /\ sbWindow = 1
    /\ sb.mism = 1
    /\ Head(sb.act) = StreamTransaction(3)
    /\ Head(sb.ref) = StreamTransaction(1)

\* C11: at finalization the run status is non-zero exactly when the channel has
\* a non-empty reference or actual queue or reported a mismatch, and the
\* unmatched count reported for each queue is the number of entries pushed to
\* it minus the number matched.
C11_LeftoverDetection ==
    final.done =>
        /\ (final.status # 0) <=> (sb.ref # <<>> \/ sb.act # <<>> \/ sb.mism > 0)
        /\ final.unmatched_ref = sb.refPushed - sb.matched
        /\ final.unmatched_act = sb.actPushed - sb.matched
        /\ final.matched = sb.matched

C11_Witness ==
    /\ final.done
    /\ sb.refPushed = 3 /\ sb.matched = 2 /\ sb.mism = 0
    /\ final.unmatched_ref = 1 /\ final.unmatched_act = 0
    /\ final.status # 0

\* ------------------------------------------------------ the random testcase
\* The testcase body has no await: it runs to its end before any driver loop
\* takes a transaction.
InitTestcaseOf(ps) ==
    /\ tcPc = "bp0"
    /\ packets \in ps
    /\ iter = 0
    /\ num_a = 0
    /\ num_b = 0
    /\ subscribed = FALSE

InitTestcase == InitTestcaseOf(0..MaxPackets)

\* random: tb.x_resp.enqueue(StreamBackpressure(ready=True)).
TcDisableBackpressure ==
    /\ tcPc = "bp0"
    /\ Enqueue("x_resp", StreamBackpressure(TRUE, 1, Test), Test)
    /\ tcPc' = "loop"
    /\ UNCHANGED <<drvPc, cur, cyc, waited, inflight, portVars, drvLog, doneCnt, capLog, seqVars>>
    /\ UNCHANGED <<packets, iter, num_a, num_b, subscribed, sbWindow, refSrc, actSrc, actOrder, final>>

\* random: the test of the enqueue loop that sends the packet to a_init.
PickA(na, nb, choice) == (nb > na + 2) \/ ((na < nb + 2) /\ choice)

\* random: one iteration of the enqueue loop, getrandbits drawing from `words`.
TcEnqueue(words) ==
    /\ tcPc = "loop"
    /\ iter < packets
    /\ \E v \in words, choice \in BOOLEAN :
          IF PickA(num_a, num_b, choice)
          THEN /\ Enqueue("a_init", StreamTransaction(v), Test)
               /\ num_a' = num_a + 1
               /\ num_b' = num_b
          ELSE /\ Enqueue("b_init", StreamTransaction(v), Test)
               /\ num_b' = num_b + 1
               /\ num_a' = num_a
    /\ iter' = iter + 1
    /\ UNCHANGED <<drvPc, cur, cyc, waited, inflight, portVars, drvLog, doneCnt, capLog, seqVars>>
    /\ UNCHANGED <<tcPc, packets, subscribed, sbWindow, refSrc, actSrc, actOrder, final>>

TcEnqueuePacket == TcEnqueue(Data)

\* random after the loop: subscribe _rand_bp to POST_DRIVE of x_resp, call it
\* once, register the wait coroutine.
TcQueueBackpressure ==
    /\ tcPc = "loop"
    /\ iter = packets
    /\ subscribed' = TRUE
    /\ \E r \in BOOLEAN, c \in 1..MaxCycles : rand_bp(r, c)
    /\ tcPc' = "done"
    /\ UNCHANGED <<drvPc, cur, cyc, waited, inflight, portVars, drvLog, doneCnt, capLog, seqVars>>
    /\ UNCHANGED <<packets, iter, num_a, num_b, sbWindow, refSrc, actSrc, actOrder, final>>

\* The design drives ready of the a and b ports freely; its x output is idle.
EdgeRandom ==
    \E ra \in Bit, rb \in Bit :
        ClockEdge([p \in Ports |->
                      CASE p = "a" -> [nxt[p] EXCEPT !.ready = ra]
                        [] p = "b" -> [nxt[p] EXCEPT !.ready = rb]
                        [] OTHER -> nxt[p]],
                  rst, FALSE, Drivers)

InitRandom ==
    /\ InitDrivers /\ InitPorts("x", {0}, {1}) /\ InitLogs /\ InitNoSeqs
    /\ InitBenchScoreboard /\ InitTestcase

NextRandom ==
    \/ TcDisableBackpressure
    \/ TcEnqueuePacket
    \/ TcQueueBackpressure
    \/ \E d \in Drivers : DriverStart(d)
    \/ \E d \in Initiators : InitiatorEdge(d)
    \/ ResponderEdge("x_resp")
    \/ EdgeRandom

SpecRandom == InitRandom /\ [][NextRandom]_vars

\* C4: every enqueue on a driver's queue is made by a caller holding that
\* driver's lock.
C4_EnqueueOnlyUnderLock == ~bareEnq

\* C12: after every iteration of the enqueue loop of the random testcase neither
\* stream is more than 2 transactions ahead of the other.
C12_DriftConstraint == num_a - num_b <= 2 /\ num_b - num_a <= 2

\* --------------------------------- the random testcase and the responder
\* The testcase and the three driver loops around a stalled design: its ready
\* outputs on a and b stay low and its x output is idle, so the initiators wait
\* with their first transaction and nothing is captured.
EdgeSetup == ClockEdge(nxt, rst, FALSE, Drivers)

\* The words getrandbits draws are pairwise distinct: the k-th is k.
TcEnqueueFresh == TcEnqueue({iter + 1})

NextSetup ==
    \/ TcDisableBackpressure
    \/ TcEnqueueFresh
    \/ TcQueueBackpressure
    \/ \E d \in Drivers : DriverStart(d)
    \/ \E d \in Initiators : InitiatorEdge(d)
    \/ ResponderEdge("x_resp")
    \/ EdgeSetup

SpecSetup == InitRandom /\ [][NextSetup]_vars

Last(q) == q[Len(q)]

\* POST_DRIVE is published on d in this step: its drive() returned.
PostDrive(d) == inflight'[d] < inflight[d]

\* C14: every ENQUEUE on a_init or b_init has run Testbench.model exactly once
\* when enqueue returns, and every POST_DRIVE on x_resp has run each subscribed
\* callback exactly once, and only them, before the driver loop goes on: the
\* loop is idle again with the callback's transaction already in its queue.
DispatchStep ==
    /\ \A d \in Initiators :
          Len(enqLog'[d]) > Len(enqLog[d]) => sb'.refPushed = sb.refPushed + 1
    /\ PostDrive("x_resp") =>
          /\ drvPc'["x_resp"] = "idle"
          /\ cur'["x_resp"] = NoTxn
          /\ sb' = sb
          /\ IF subscribed
             THEN /\ Len(queue'["x_resp"]) = Len(queue["x_resp"]) + 1
                  /\ Last(queue'["x_resp"]).by = Test
             ELSE queue'["x_resp"] = queue["x_resp"]

ReferenceStep ==
    /\ \A d \in Initiators :
          enqLog'[d] # enqLog[d] =>
              /\ enqLog'[d] = Append(enqLog[d], Last(queue'[d]))
              /\ sb'.ref = Append(sb.ref, Last(queue'[d]))
    /\ (\A d \in Initiators : enqLog'[d] = enqLog[d]) => sb'.ref = sb.ref
    /\ (queue'["x_resp"] # queue["x_resp"]) => sb'.ref = sb.ref

C20_BackpressureSupply ==
    /\ Len(queue["x_resp"]) <= 2
    /\ tcPc = "done" =>
          /\ subscribed
          /\ queue["x_resp"] # <<>> \/ inflight["x_resp"] > 0
          /\ Len(queue["x_resp"]) + inflight["x_resp"] = 2

C20_Witness ==
    /\ tcPc = "done"
    /\ doneCnt["x_resp"] >= 3
    /\ inflight["x_resp"] = 1
    /\ cur["x_resp"].cycles = 2 /\ cyc["x_resp"] = 1
    /\ Len(queue["x_resp"]) = 1

\* ------------------------------------------- the driver loops in either run
\* A run is the scheduled sequences, or the random testcase.
InitLoop == InitSeq \/ InitRandom

NextLoop ==
    \/ tcPc = "off" /\ NextSeq
    \/ tcPc # "off" /\ NextSetup

SpecLoop == InitLoop /\ [][NextLoop]_vars

\* C15: a driver has at most one transaction in flight: its loop starts drive()
\* for the next queued transaction only after the previous drive() returned and
\* POST_DRIVE was published, whoever enqueued (sequences sharing the driver,
\* the testcase, a POST_DRIVE callback).
C15_SingleInFlight ==
    \A d \in Drivers :
        /\ inflight[d] <= 1
        /\ inflight[d] = 1 <=> drvPc[d] # "idle"
        /\ inflight[d] = 1 <=> cur[d] # NoTxn
        /\ d \in Initiators => Len(drvLog[d]) = doneCnt[d] + inflight[d]

C15_Witness ==
    /\ subscribed
    /\ doneCnt["x_resp"] >= 2
    /\ inflight["x_resp"] = 1
    /\ cur["x_resp"].by = Test
    /\ Len(queue["x_resp"]) = 1
    /\ inflight["a_init"] = 1 /\ Len(queue["a_init"]) >= 1

\* ------------------------------------- the random testcase around an arbiter
\* The design under test: a 2-to-1 stream arbiter with fixed priority (a over
\* b) and one output register. It accepts an input transaction on an edge where
\* its output register is empty or is being taken, forwards every transaction
\* it accepted exactly once and keeps the order of each input. `n` is the
\* settled value of every signal before the edge.
DutFree(n) == n["x"].valid = 0 \/ n["x"].ready = 1

DutGrant(n) ==
    IF ~DutFree(n) THEN "none"
    ELSE IF n["a"].valid = 1 THEN "a"
    ELSE IF n["b"].valid = 1 THEN "b"
    ELSE "none"

\* The signals as read on the edge: the ready outputs of the design are
\* combinational.
DutSig(n) ==
    [p \in Ports |->
        CASE p = "a" -> [n[p] EXCEPT !.ready = BoolToBit(DutGrant(n) = "a")]
          [] p = "b" -> [n[p] EXCEPT !.ready = BoolToBit(DutGrant(n) = "b")]
          [] OTHER -> n[p]]

\* The output register after the edge.
DutNxt(n) ==
    [n EXCEPT !["x"] =
        IF ~DutFree(n) THEN @
        ELSE IF DutGrant(n) = "none" THEN [@ EXCEPT !.valid = 0]
        ELSE [@ EXCEPT !.valid = 1, !.data = n[DutGrant(n)].data]]

EdgeBench == ClockTick(DutSig(nxt), DutNxt(nxt), rst, FALSE, Drivers \cup {Mon})

\* The run is finalized when the initiators and the design have nothing left to
\* forward, or when it was aborted.
BenchDrained ==
    /\ tcPc = "done"
    /\ \A d \in Initiators : drvPc[d] = "idle" /\ queue[d] = <<>>
    /\ nxt["x"].valid = 0

BenchFinalize ==
    /\ BenchDrained \/ sb.mism > 0
    /\ Finalize

InitBench ==
    /\ InitDrivers /\ InitPorts("x", {0}, {1}) /\ InitLogs /\ InitNoSeqs
    /\ InitBenchScoreboard /\ InitTestcaseOf({BenchPackets})

NextBench ==
    \/ TcDisableBackpressure
    \/ TcEnqueueFresh
    \/ TcQueueBackpressure
    \/ \E d \in Drivers : DriverStart(d)
    \/ \E d \in Initiators : InitiatorEdge(d)
    \/ ResponderEdge("x_resp")
    \/ Monitor
    \/ EdgeBench
    \/ BenchFinalize

SpecBench == InitBench /\ [][NextBench]_vars

=============================================================================
